---- MODULE Spec2Model ----
(***************************************************************************)
(* indra_db managers.                                                      *)
(*                                                                         *)
(*   readonly_manager.py       the snapshot refresh cycle (main) and the   *)
(*                             ReadonlyTransferEnv context manager that    *)
(*                             redirects the serving Lambda function.      *)
(*   knowledgebase_manager.py  KnowledgebaseManager.upload / update /      *)
(*                             _check_reference and the batch entry point. *)
(*                                                                         *)
(* Four specifications share the module: SpecRO (one refresh cycle after   *)
(* the other), SpecKB (upload and update calls against one store), SpecReg *)
(* (calls of _check_reference) and SpecBatch (the __main__ loop).          *)
(***************************************************************************)
EXTENDS Bags, FiniteSets, Integers, Sequences, TLC

VARIABLES
    \* ---- readonly_manager.main ----
    pc,            \* the statement of main() that runs next
    args,          \* parse_args(): delete_existing, allow_continue
    lambda_env,    \* the Lambda function's Environment.Variables (key/value pairs)
    schemas,       \* principal_db.get_schemas()
    dump_file,     \* the value dump_readonly() returned
    readonly_db,   \* content of the read-serving store: old / partial / new
    cycles,        \* the number of cycles started
    cyc,           \* what happened in the current cycle (history)
    \* ---- knowledgebase_manager ----
    db_info,         \* the DBInfo table: rows in insertion order, id = position
    raw_statements,  \* the RawStatements table: a bag of rows
    last,            \* the last manager call and what it did (history)
    batch,           \* the __main__ loop: mode, position, managers processed
    \* ---- knowledgebase_manager: the statements on their way to the store ----
    xf,              \* one call of _expanded or of extract_duplicates
    pipe,            \* one call of a manager's _get_statements
    jobs             \* manager calls that run at the same time

vars == <<pc, args, lambda_env, schemas, dump_file, readonly_db, cycles, cyc,
          db_info, raw_statements, last, batch, xf, pipe, jobs>>

\* The knowledge base store and the batch loop take no part in the cycle.
KBIdle == UNCHANGED <<db_info, raw_statements, last, batch, xf, pipe, jobs>>

\* The refresh cycle takes no part in the knowledge base managers' calls, and
\* the calls studied one at a time run no statement transformation of their
\* own and no second job.
ROIdle == UNCHANGED <<pc, args, lambda_env, schemas, dump_file, readonly_db,
                      cycles, cyc, xf, pipe, jobs>>

\* No call of _expanded or extract_duplicates, no _get_statements call and no
\* concurrent job is under study.
NoXf == [pc |-> "none", fn |-> "none", key_func |-> "none", input |-> <<>>,
         output |-> <<>>, duplicates |-> <<>>]
NoPipe == [pc |-> "none", manager |-> "none", raw |-> <<>>, stmts |-> <<>>,
           expanded_called |-> FALSE, dedup_called |-> FALSE,
           dedup_input |-> <<>>, returned |-> <<>>]
NoJobs == [pc |-> "none", init_info |-> <<>>, init_rows |-> <<>>,
           job |-> <<>>, overlapped |-> FALSE]

NoTransforms ==
    /\ xf = NoXf
    /\ pipe = NoPipe
    /\ jobs = NoJobs

(***************************************************************************)
(* Bounds.                                                                 *)
(***************************************************************************)
MaxCycles == 2     \* refresh cycles started
MaxStmts == 2      \* statements in one adapter result
MaxRows == 3       \* rows the RawStatements table holds
MaxEvidence == 2   \* evidence records of one statement an adapter returns

(***************************************************************************)
(*                 readonly_manager.py : the refresh cycle                 *)
(***************************************************************************)

PrincipalUrl == "url(principal)"
ReadonlyUrl == "url(readonly)"

NoVariables == {}

\* Environments the Lambda function can have before any cycle ran.
InitialEnvs == {NoVariables, {<<"INDRA_LOG", "info">>}}

\* __enter__ (line 53): the dict handed to _set_lambda_env.
\* (Mutant: the override names the read-serving store.)
EnterEnvDict_readonly == {<<"INDRAROOVERRIDE", ReadonlyUrl>>}

EnterEnvDict == {<<"INDRAROOVERRIDE", PrincipalUrl>>}

\* __exit__ (line 56): the dict handed to _set_lambda_env.
ExitEnvDict == NoVariables

\* def __exit__(self): the parameters __exit__ declares besides self.
ExitParams == 0

\* The with statement (line 82) calls __exit__(exc_type, exc_value, traceback).
WithExitArgs == 3

\* The states of the cycle as the design names them, from the position in main.
CycleState ==
    CASE pc = "idle" -> "IDLE"
      [] pc \in {"drop_existing", "generate_readonly"} -> "BUILDING"
      [] pc = "dump_readonly" -> "DUMPING"
      [] pc = "enter" -> "CUTTING_OVER"
      [] pc = "load_dump" -> "LOADING"
      [] pc = "exit" -> "RESTORING"
      [] pc = "failed" -> "FAILED"

NewCycle(env) ==
    [env_before |-> env,      \* the environment when the cycle started
     env_calls |-> 0,         \* completed update calls on the Lambda function
     load_called |-> FALSE,   \* load_dump was called
     load_raised |-> FALSE,   \* load_dump raised
     final_drop |-> FALSE,    \* line 89 ran
     failed_at |-> "none",    \* the statement whose exception ended the cycle
     error |-> "none"]        \* that exception

\* No cycle has run: the Lambda function has the environment `env`, the
\* primary store has no readonly schema, the read-serving store its old content.
NoCycle(env) ==
    /\ pc = "idle"
    /\ args = [delete_existing |-> FALSE, allow_continue |-> FALSE]
    /\ lambda_env = env
    /\ schemas = {"public"}
    /\ dump_file = "none"
    /\ readonly_db = "old"
    /\ cycles = 0
    /\ cyc = NewCycle(env)

\* An exception leaves main(), which catches none: the process ends and
\* nothing else of main runs.
\* (Mutant: the exception is logged and main goes on to the cutover.)
Raise_swallowed(at, err) ==
    /\ pc' = "enter"
    /\ cyc' = [cyc EXCEPT !.failed_at = at, !.error = err]

Raise(at, err) ==
    /\ pc' = "failed"
    /\ cyc' = [cyc EXCEPT !.failed_at = at, !.error = err]

\* main() lines 59-70: a new process parses its arguments and opens the stores.
StartCycle ==
    /\ KBIdle
    /\ pc \in {"idle", "failed"}
    /\ cycles < MaxCycles
    /\ \E d \in BOOLEAN, a \in BOOLEAN :
         args' = [delete_existing |-> d, allow_continue |-> a]
    /\ pc' = "drop_existing"
    /\ cycles' = cycles + 1
    /\ cyc' = NewCycle(lambda_env)
    /\ dump_file' = "none"
    /\ UNCHANGED <<lambda_env, schemas, readonly_db>>

\* main() lines 71-72.
DropExisting ==
    /\ KBIdle
    /\ pc = "drop_existing"
    /\ schemas' = IF args.delete_existing /\ "readonly" \in schemas
                  THEN schemas \ {"readonly"}
                  ELSE schemas
    /\ pc' = "generate_readonly"
    /\ UNCHANGED <<args, lambda_env, dump_file, readonly_db, cycles, cyc>>

\* principal_db.generate_readonly(ro_list, allow_continue): the outcomes, as
\* [raised, schemas]. It gives up when the schema exists and it may not continue
\* atop it; a build that raises may leave the schema partly built.
GenerateOutcomes(s, allow_continue) ==
    IF "readonly" \in s /\ ~allow_continue
    THEN {[raised |-> TRUE, schemas |-> s]}
    ELSE {[raised |-> FALSE, schemas |-> s \cup {"readonly"}],
          [raised |-> TRUE, schemas |-> s],
          [raised |-> TRUE, schemas |-> s \cup {"readonly"}]}

\* main() lines 73-74.
GenerateReadonly ==
    /\ KBIdle
    /\ pc = "generate_readonly"
    /\ \E o \in GenerateOutcomes(schemas, args.allow_continue) :
         IF o.raised
         THEN /\ Raise("generate_readonly", "BuildError")
              /\ schemas' = o.schemas
         ELSE /\ pc' = "dump_readonly"
              /\ schemas' = o.schemas
              /\ cyc' = cyc
    /\ UNCHANGED <<args, lambda_env, dump_file, readonly_db, cycles>>

\* main() line 78.
DumpReadonly ==
    /\ KBIdle
    /\ pc = "dump_readonly"
    /\ \E raised \in BOOLEAN :
         IF raised
         THEN /\ Raise("dump_readonly", "DumpError")
              /\ schemas' = schemas
              /\ dump_file' = dump_file
         ELSE /\ pc' = "enter"
              /\ dump_file' = "readonly.dump"
              /\ UNCHANGED <<schemas, cyc>>
    /\ UNCHANGED <<args, lambda_env, readonly_db, cycles>>

\* _set_lambda_env(env_dict), lines 45-50: the outcomes, as [raised, env]. The
\* update replaces the function's whole Variables mapping. The call is spelled
\* update_function_configureation: a client without an attribute of that name
\* (botocore's Lambda client names the operation update_function_configuration)
\* raises AttributeError; get_lambda_client() or the request can raise as well.
SetLambdaEnv(env, env_dict) ==
    {[raised |-> FALSE, env |-> env_dict],
     [raised |-> TRUE, env |-> env]}

\* Line 82, entering the with block: ReadonlyTransferEnv.__enter__ (52-53).
\* When __enter__ raises the block is not run and __exit__ is not called.
EnterTransferEnv ==
    /\ KBIdle
    /\ pc = "enter"
    /\ \E o \in SetLambdaEnv(lambda_env, EnterEnvDict) :
         /\ lambda_env' = o.env
         /\ IF o.raised
            THEN Raise("enter", "AttributeError")
            ELSE /\ pc' = "load_dump"
                 /\ cyc' = [cyc EXCEPT !.env_calls = @ + 1]
    /\ UNCHANGED <<args, schemas, dump_file, readonly_db, cycles>>

\* Line 83: readonly_db.load_dump(dump_file) is restoring the dump into the
\* read-serving store.
LoadDumpRestore ==
    /\ KBIdle
    /\ pc = "load_dump"
    /\ readonly_db # "partial"
    /\ readonly_db' = "partial"
    /\ cyc' = [cyc EXCEPT !.load_called = TRUE]
    /\ UNCHANGED <<pc, args, lambda_env, schemas, dump_file, cycles>>

\* Line 83: load_dump returns, or raises (at any point of the restore). Either
\* way control passes to the with statement's exit.
LoadDumpReturn ==
    /\ KBIdle
    /\ pc = "load_dump"
    /\ \E raised \in BOOLEAN :
         IF raised
         THEN /\ cyc' = [cyc EXCEPT !.load_called = TRUE, !.load_raised = TRUE]
              /\ readonly_db' = readonly_db
         ELSE /\ readonly_db = "partial"
              /\ readonly_db' = "new"
              /\ cyc' = cyc
    /\ pc' = "exit"
    /\ UNCHANGED <<args, lambda_env, schemas, dump_file, cycles>>

\* Lines 85-89: the primary store's schemas once the with statement is over.
\* The drop of line 89 follows the with statement in straight line, so it runs
\* only when the statement completed without an exception.
\* (Mutant: the drop sits in a finally clause and runs either way.)
SchemasAfterWith_finally(s, completed) == s \ {"readonly"}

SchemasAfterWith(s, completed) ==
    IF completed THEN s \ {"readonly"} ELSE s

\* Lines 82-90, leaving the with block. The interpreter calls __exit__ with
\* WithExitArgs arguments; __exit__ declares ExitParams, so unless they agree
\* the call raises TypeError before the body of __exit__ (line 56) runs, and
\* that TypeError replaces an exception of the block. When __exit__ does run
\* it returns None: an exception of the block propagates after it. When the
\* with statement completes, main goes on to lines 87-89 and returns.
LeaveTransferEnv ==
    /\ KBIdle
    /\ pc = "exit"
    /\ IF WithExitArgs # ExitParams
       THEN /\ Raise("exit", "TypeError")
            /\ lambda_env' = lambda_env
            /\ schemas' = SchemasAfterWith(schemas, FALSE)
       ELSE \E o \in SetLambdaEnv(lambda_env, ExitEnvDict) :
              /\ lambda_env' = o.env
              /\ IF o.raised
                 THEN /\ Raise("exit", "AttributeError")
                      /\ schemas' = SchemasAfterWith(schemas, FALSE)
                 ELSE IF cyc.load_raised
                 THEN /\ pc' = "failed"
                      /\ cyc' = [cyc EXCEPT !.env_calls = @ + 1,
                                            !.failed_at = "load_dump",
                                            !.error = "LoadError"]
                      /\ schemas' = SchemasAfterWith(schemas, FALSE)
                 ELSE /\ pc' = "idle"
                      /\ cyc' = [cyc EXCEPT !.env_calls = @ + 1,
                                            !.final_drop = TRUE]
                      /\ schemas' = SchemasAfterWith(schemas, TRUE)
    /\ UNCHANGED <<args, dump_file, readonly_db, cycles>>

(***************************************************************************)
(*          knowledgebase_manager.py : KnowledgebaseManager                *)
(***************************************************************************)

\* The manager classes modelled (name, short_name, source), lines 76-80, 114-118.
TasManager == [name |-> "TAS", short_name |-> "tas", source |-> "tas"]
CBNManager == [name |-> "Causal Bionet", short_name |-> "cbn", source |-> "bel"]

Managers == {TasManager, CBNManager}

\* _check_reference's "return None" (line 62); registration ids start at 1.
None == 0

\* Statements as the managers see them: the content hash (get_hash()), the
\* source hash of each evidence in order, and whether assert_valid_statement
\* accepts the statement. The statements a manager is handed here carry an
\* evidence: the store takes no statement without one.
StmtA == [hash |-> "h1", evidence |-> <<"s1">>, valid |-> TRUE]
StmtB == [hash |-> "h2", evidence |-> <<"s2">>, valid |-> TRUE]
StmtInvalid == [hash |-> "h2", evidence |-> <<"s1">>, valid |-> FALSE]

AdapterStmts == {StmtA, StmtB, StmtInvalid}

SeqsUpTo(S, n) == UNION {[1..k -> S] : k \in 0..n}

\* What _get_statements() can do: raise, or return a list of statements.
AdapterResults ==
    {[raised |-> TRUE, stmts |-> <<>>]}
      \cup {[raised |-> FALSE, stmts |-> ss] : ss \in SeqsUpTo(AdapterStmts, MaxStmts)}

\* The record of a call: the operation, the manager (short_name, source),
\* can_create as _check_reference got it, whether _get_statements was called
\* and what it returned, how the call ended, the statements handed to
\* insert_db_stmts, what _check_reference returned and wrote, and whether the
\* call repeats the one before it.
NoCall ==
    [op |-> "none", kb |-> "none", source |-> "none", can_create |-> FALSE,
     fetched |-> FALSE, stmts |-> <<>>, result |-> "none", inserted |-> <<>>,
     dbid |-> None, write |-> "none", repeat |-> FALSE,
     after_failed_upload |-> FALSE]

InitStore ==
    /\ db_info = <<>>
    /\ raw_statements = EmptyBag
    /\ last = NoCall

\* db.select_one(db.DBInfo, db.DBInfo.db_name == short_name): the position of
\* the row, None when there is none.
SelectOne(info, short_name) ==
    IF \E i \in 1..Len(info) : info[i].db_name = short_name
    THEN CHOOSE i \in 1..Len(info) :
           /\ info[i].db_name = short_name
           /\ \A j \in 1..(i - 1) : info[j].db_name # short_name
    ELSE None

\* _check_reference(db, can_create), lines 54-69: the DBInfo table after the
\* call, the value returned, and the metadata write made (insert, commit, none).
\* (Mutant: an existing row is rewritten and committed without comparing.)
CheckReference_nocompare(info, m, can_create) ==
    LET dbinfo == SelectOne(info, m.short_name) IN
    IF dbinfo = None
    THEN IF can_create
         THEN [info |-> Append(info, [id |-> Len(info) + 1,
                                       db_name |-> m.short_name,
                                       source_api |-> m.source,
                                       db_full_name |-> m.name]),
               dbid |-> Len(info) + 1, write |-> "insert"]
         ELSE [info |-> info, dbid |-> None, write |-> "none"]
    ELSE [info |-> [info EXCEPT ![dbinfo].source_api = m.source],
          dbid |-> info[dbinfo].id, write |-> "commit"]

CheckReference(info, m, can_create) ==
    LET dbinfo == SelectOne(info, m.short_name) IN
    IF dbinfo = None
    THEN IF can_create
         THEN [info |-> Append(info, [id |-> Len(info) + 1,
                                       db_name |-> m.short_name,
                                       source_api |-> m.source,
                                       db_full_name |-> m.name]),
               dbid |-> Len(info) + 1, write |-> "insert"]
         ELSE [info |-> info, dbid |-> None, write |-> "none"]
    ELSE IF info[dbinfo].source_api # m.source
         THEN [info |-> [info EXCEPT ![dbinfo].source_api = m.source],
               dbid |-> info[dbinfo].id, write |-> "commit"]
         ELSE [info |-> info, dbid |-> info[dbinfo].id, write |-> "none"]

\* (s.get_hash(), s.evidence[0].get_source_hash()), line 49.
StmtKey(s) == <<s.hash, s.evidence[1]>>

\* The keys of the rows persisted under dbid, lines 44-46.
\* (Mutants: the select returns no row; the select has no db_info_id
\* condition.)
ExistingKeys_unread(rows, dbid) == {}

ExistingKeys_all(rows, dbid) ==
    {<<r.mk_hash, r.source_hash>> : r \in BagToSet(rows)}

ExistingKeys(rows, dbid) ==
    {<<r.mk_hash, r.source_hash>> :
       r \in {x \in BagToSet(rows) : x.db_info_id = dbid}}

RECURSIVE RowsOf(_, _)
\* The rows of a list of statements, one each, as a bag.
RowsOf(stmts, dbid) ==
    IF stmts = <<>>
    THEN EmptyBag
    ELSE SetToBag({[db_info_id |-> dbid,
                    mk_hash |-> StmtKey(Head(stmts))[1],
                    source_hash |-> StmtKey(Head(stmts))[2]]})
           (+) RowsOf(Tail(stmts), dbid)

\* insert_db_stmts(db, stmts, dbid): one batch insert of a row per statement
\* under the registration id.
InsertDbStmts(rows, stmts, dbid) == rows (+) RowsOf(stmts, dbid)

RECURSIVE FirstInvalid(_)
\* The loop of lines 33-34: the position of the first statement that
\* assert_valid_statement rejects, 0 when it accepts them all.
FirstInvalid(stmts) ==
    IF stmts = <<>> THEN 0
    ELSE IF ~Head(stmts).valid THEN 1
    ELSE LET r == FirstInvalid(Tail(stmts)) IN IF r = 0 THEN 0 ELSE r + 1

\* Lines 33-35: the statements insert_db_stmts is given. The loop checks the
\* whole list first, so an invalid statement anywhere means none is inserted.
\* (Mutant: each statement is inserted as soon as it is checked.)
UploadBatch_interleaved(stmts) ==
    IF FirstInvalid(stmts) = 0
    THEN stmts
    ELSE SubSeq(stmts, 1, FirstInvalid(stmts) - 1)

UploadBatch(stmts) ==
    IF FirstInvalid(stmts) = 0 THEN stmts ELSE <<>>

\* upload(db), lines 27-36, with the adapter's result `fetch`: the store after
\* the call and the record of the call.
\* (Mutant: upload leaves out the statements whose key is already persisted
\* under the registration, as update does.)
UploadCall_skip_existing(info, rows, m, fetch) ==
    LET ref == CheckReference(info, m, TRUE)
        call == [NoCall EXCEPT !.op = "upload", !.kb = m.short_name,
                               !.source = m.source, !.can_create = TRUE,
                               !.fetched = TRUE, !.stmts = fetch.stmts,
                               !.result = "ok", !.dbid = ref.dbid,
                               !.write = ref.write]
    IN  IF fetch.raised
        THEN [info |-> ref.info, rows |-> rows,
              call |-> [call EXCEPT !.result = "FetchError"]]
        ELSE LET batch_stmts ==
                   SelectSeq(UploadBatch(fetch.stmts),
                             LAMBDA s : StmtKey(s) \notin ExistingKeys(rows, ref.dbid))
             IN  [info |-> ref.info,
                  rows |-> InsertDbStmts(rows, batch_stmts, ref.dbid),
                  call |-> [call EXCEPT
                              !.result = IF FirstInvalid(fetch.stmts) # 0
                                         THEN "InvalidStatement" ELSE "ok",
                              !.inserted = batch_stmts]]

\* (Mutant: the registration is written only when the upload completes.)
UploadCall_register_last(info, rows, m, fetch) ==
    LET ref == CheckReference(info, m, TRUE)
        call == [NoCall EXCEPT !.op = "upload", !.kb = m.short_name,
                               !.source = m.source, !.can_create = TRUE,
                               !.fetched = TRUE, !.stmts = fetch.stmts,
                               !.result = "ok", !.dbid = ref.dbid,
                               !.write = ref.write]
    IN  IF fetch.raised
        THEN [info |-> info, rows |-> rows,
              call |-> [call EXCEPT !.result = "FetchError"]]
        ELSE LET batch_stmts == UploadBatch(fetch.stmts)
             IN  [info |-> IF FirstInvalid(fetch.stmts) # 0 THEN info ELSE ref.info,
                  rows |-> InsertDbStmts(rows, batch_stmts, ref.dbid),
                  call |-> [call EXCEPT
                              !.result = IF FirstInvalid(fetch.stmts) # 0
                                         THEN "InvalidStatement" ELSE "ok",
                              !.inserted = batch_stmts]]

UploadCall(info, rows, m, fetch) ==
    LET ref == CheckReference(info, m, TRUE)
        call == [NoCall EXCEPT !.op = "upload", !.kb = m.short_name,
                               !.source = m.source, !.can_create = TRUE,
                               !.fetched = TRUE, !.stmts = fetch.stmts,
                               !.result = "ok", !.dbid = ref.dbid,
                               !.write = ref.write]
    IN  IF fetch.raised
        THEN [info |-> ref.info, rows |-> rows,
              call |-> [call EXCEPT !.result = "FetchError"]]
        ELSE LET batch_stmts == UploadBatch(fetch.stmts)
             IN  [info |-> ref.info,
                  rows |-> InsertDbStmts(rows, batch_stmts, ref.dbid),
                  call |-> [call EXCEPT
                              !.result = IF FirstInvalid(fetch.stmts) # 0
                                         THEN "InvalidStatement" ELSE "ok",
                              !.inserted = batch_stmts]]

\* Lines 48-50: the statements whose key is not among the existing keys.
\* (Mutants: no filter; the test inverted.)
FilterNew_nofilter(stmts, existing_keys) == stmts

FilterNew_inverted(stmts, existing_keys) ==
    SelectSeq(stmts, LAMBDA s : StmtKey(s) \in existing_keys)

FilterNew(stmts, existing_keys) ==
    SelectSeq(stmts, LAMBDA s : StmtKey(s) \notin existing_keys)

\* Line 51: the table after the filtered statements are inserted.
\* (Mutant: the rows of the registration are replaced by the new ones.)
UpdateInsert_replace(rows, filtered_stmts, dbid) ==
    LET kept == [r \in {x \in BagToSet(rows) : x.db_info_id # dbid}
                   |-> rows[r]]
    IN  kept (+) RowsOf(filtered_stmts, dbid)

\* (Mutant: the insert leaves out a statement whose key is persisted under the
\* registration by the time of the insert.)
UpdateInsert_if_absent(rows, filtered_stmts, dbid) ==
    InsertDbStmts(rows,
                  SelectSeq(filtered_stmts,
                            LAMBDA s : StmtKey(s) \notin ExistingKeys(rows, dbid)),
                  dbid)

UpdateInsert(rows, filtered_stmts, dbid) ==
    InsertDbStmts(rows, filtered_stmts, dbid)

\* The guard of lines 40-43: whether update goes on after _check_reference.
\* (Mutant: the None check is missing.)
UpdateRefused_never(dbid) == FALSE

UpdateRefused(dbid) == dbid = None

\* update(db), lines 38-52, with the adapter's result `fetch`.
UpdateCall(info, rows, m, fetch) ==
    LET ref == CheckReference(info, m, FALSE)
        call == [NoCall EXCEPT !.op = "update", !.kb = m.short_name,
                               !.source = m.source, !.result = "ok",
                               !.dbid = ref.dbid, !.write = ref.write]
    IN  IF UpdateRefused(ref.dbid)
        THEN [info |-> ref.info, rows |-> rows,
              call |-> [call EXCEPT !.result = "NotRegistered"]]
        ELSE LET existing_keys == ExistingKeys(rows, ref.dbid)
                 fetched == [call EXCEPT !.fetched = TRUE, !.stmts = fetch.stmts]
             IN  IF fetch.raised
                 THEN [info |-> ref.info, rows |-> rows,
                       call |-> [fetched EXCEPT !.result = "FetchError"]]
                 ELSE IF \E i \in 1..Len(fetch.stmts) :
                           fetch.stmts[i].evidence = <<>>
                 THEN \* s.evidence[0] of line 49
                      [info |-> ref.info, rows |-> rows,
                       call |-> [fetched EXCEPT !.result = "IndexError"]]
                 ELSE LET filtered_stmts == FilterNew(fetch.stmts, existing_keys)
                      IN  [info |-> ref.info,
                           rows |-> UpdateInsert(rows, filtered_stmts, ref.dbid),
                           call |-> [fetched EXCEPT !.inserted = filtered_stmts]]

\* The call repeats the one before it: the same operation of the same manager
\* with the same arguments, which completed, with the adapter returning the
\* same statements.
Repeats(call) ==
    /\ last.result = "ok"
    /\ call.op = last.op
    /\ call.kb = last.kb
    /\ call.source = last.source
    /\ call.can_create = last.can_create
    /\ call.fetched = last.fetched
    /\ call.result # "FetchError"
    /\ call.stmts = last.stmts

\* The call before was an upload that created the registration and then
\* failed in _get_statements or in the validity check.
FailedFirstUpload(call) ==
    /\ call.op = "upload"
    /\ call.write = "insert"
    /\ call.result \in {"FetchError", "InvalidStatement"}

\* The call is the update of the same knowledge base that follows such an
\* upload.
FollowsFailedUpload(call) ==
    /\ FailedFirstUpload(last)
    /\ call.op = "update"
    /\ call.kb = last.kb

Apply(r) ==
    /\ BagCardinality(r.rows) <= MaxRows
    /\ db_info' = r.info
    /\ raw_statements' = r.rows
    /\ last' = [r.call EXCEPT !.repeat = Repeats(r.call),
                              !.after_failed_upload = FollowsFailedUpload(r.call)]

Upload ==
    /\ \E m \in Managers, fetch \in AdapterResults :
         Apply(UploadCall(db_info, raw_statements, m, fetch))
    /\ ROIdle
    /\ UNCHANGED batch

Update ==
    /\ \E m \in Managers, fetch \in AdapterResults :
         Apply(UpdateCall(db_info, raw_statements, m, fetch))
    /\ ROIdle
    /\ UNCHANGED batch

\* The batch entry point is not running.
NoBatch ==
    [pc |-> "none", mode |-> "none", i |-> 1, attempted |-> <<>>, exit_code |-> 0]

InitKB ==
    /\ InitStore
    /\ batch = NoBatch
    /\ NoTransforms
    /\ NoCycle(NoVariables)

NextKB == Upload \/ Update

SpecKB == InitKB /\ [][NextKB]_vars

(***************************************************************************)
(* SpecSerial: one manager run serially against an empty store, first its  *)
(* upload, then updates, one call at a time, by an adapter whose list has   *)
(* one evidence record per statement and no key twice.                     *)
(***************************************************************************)

\* No two statements of the list have the same key.
DistinctKeys(stmts) ==
    \A i, j \in 1..Len(stmts) : i # j => StmtKey(stmts[i]) # StmtKey(stmts[j])

\* What such an adapter can do at a call: raise, or return any list without
\* a repeated key.
CleanResults == {r \in AdapterResults : r.raised \/ DistinctKeys(r.stmts)}

\* The one upload: the knowledge base is not registered yet.
SerialUpload ==
    /\ SelectOne(db_info, TasManager.short_name) = None
    /\ \E fetch \in CleanResults :
         Apply(UploadCall(db_info, raw_statements, TasManager, fetch))
    /\ ROIdle
    /\ UNCHANGED batch

\* An update, before (refused) or after the upload.
SerialUpdate ==
    /\ \E fetch \in CleanResults :
         Apply(UpdateCall(db_info, raw_statements, TasManager, fetch))
    /\ ROIdle
    /\ UNCHANGED batch

NextSerial == SerialUpload \/ SerialUpdate

SpecSerial == InitKB /\ [][NextSerial]_vars

(***************************************************************************)
(* SpecReg: _check_reference called on its own, by managers whose source   *)
(* tag may differ from the one stored (the tag of a class is edited from   *)
(* one release to the next).                                               *)
(***************************************************************************)
Sources == {"tas", "bel"}

CheckReferenceCall ==
    /\ \E m \in Managers, source \in Sources, can_create \in BOOLEAN :
         LET mm == [m EXCEPT !.source = source]
             ref == CheckReference(db_info, mm, can_create)
             call == [NoCall EXCEPT !.op = "_check_reference",
                                    !.kb = mm.short_name, !.source = source,
                                    !.can_create = can_create, !.result = "ok",
                                    !.dbid = ref.dbid, !.write = ref.write]
         IN  /\ db_info' = ref.info
             /\ last' = [call EXCEPT !.repeat = Repeats(call)]
    /\ UNCHANGED <<raw_statements, batch>>
    /\ ROIdle

NextReg == CheckReferenceCall

SpecReg == InitKB /\ [][NextReg]_vars

(***************************************************************************)
(* SpecBatch: the entry point, lines 506-520. The loop takes the manager   *)
(* classes in the order of KnowledgebaseManager.__subclasses__(), the      *)
(* order of their definition; an exception of upload or update is not      *)
(* caught and ends the process.                                            *)
(***************************************************************************)
BatchManagers == <<TasManager, CBNManager>>

Modes == {"upload", "update", "refresh"}

\* The store when the process starts: empty, or with registrations of earlier
\* uploads that persisted no statement.
RegistrationOf(m, id) ==
    [id |-> id, db_name |-> m.short_name, source_api |-> m.source,
     db_full_name |-> m.name]

InitBatch ==
    /\ db_info \in {<<>>,
                    <<RegistrationOf(TasManager, 1)>>,
                    <<RegistrationOf(TasManager, 1), RegistrationOf(CBNManager, 2)>>}
    /\ raw_statements = EmptyBag
    /\ last = NoCall
    /\ batch \in {[NoBatch EXCEPT !.pc = "loop", !.mode = mode] : mode \in Modes}
    /\ NoTransforms
    /\ NoCycle(NoVariables)

\* What the loop does after kbm.upload(db) or kbm.update(db) ended with
\* `result`: the next iteration, the end of the loop, or the death of the
\* process by the uncaught exception.
AfterJob(result) ==
    LET b == [batch EXCEPT !.attempted = Append(@, BatchManagers[batch.i].short_name)]
    IN  IF result # "ok"
        THEN [b EXCEPT !.pc = "crashed", !.exit_code = 1]
        ELSE IF batch.i = Len(BatchManagers)
        THEN [b EXCEPT !.pc = "done"]
        ELSE [b EXCEPT !.i = @ + 1]

\* Lines 514-520: the branch the loop body takes for a mode.
\* (Mutant: no final else, every mode that is not update is an upload.)
ModeBranch_default(mode) ==
    IF mode = "update" THEN "update" ELSE "upload"

ModeBranch(mode) ==
    IF mode = "upload" THEN "upload"
    ELSE IF mode = "update" THEN "update"
    ELSE "exit"

\* Lines 511-515.
BatchUpload ==
    /\ batch.pc = "loop"
    /\ ModeBranch(batch.mode) = "upload"
    /\ \E fetch \in AdapterResults :
         LET r == UploadCall(db_info, raw_statements, BatchManagers[batch.i], fetch)
         IN  /\ Apply(r)
             /\ batch' = AfterJob(r.call.result)
    /\ ROIdle

\* Lines 511-513, 516-517.
BatchUpdate ==
    /\ batch.pc = "loop"
    /\ ModeBranch(batch.mode) = "update"
    /\ \E fetch \in AdapterResults :
         LET r == UpdateCall(db_info, raw_statements, BatchManagers[batch.i], fetch)
         IN  /\ Apply(r)
             /\ batch' = AfterJob(r.call.result)
    /\ ROIdle

\* Lines 511-513, 518-520.
BatchInvalidMode ==
    /\ batch.pc = "loop"
    /\ ModeBranch(batch.mode) = "exit"
    /\ batch' = [batch EXCEPT !.pc = "exited", !.exit_code = 1]
    /\ UNCHANGED <<db_info, raw_statements, last>>
    /\ ROIdle

NextBatch == BatchUpload \/ BatchUpdate \/ BatchInvalidMode

SpecBatch == InitBatch /\ [][NextBatch]_vars

(***************************************************************************)
(* SpecExpanded: _expanded applied to a list of statements.                *)
(***************************************************************************)

\* A statement as _expanded sees it: its content hash (a function of type and
\* agents), its evidence list and the object's identity, "orig" for an object
\* of the input and "fresh" for one made by make_generic_copy.
Hashes == {"h1", "h2"}
EvidenceRecords == {"e1", "e2"}

EvidenceLists == SeqsUpTo(EvidenceRecords, MaxEvidence)

InputStmts == [hash : Hashes, evidence : EvidenceLists, uuid : {"orig"}]

\* Line 432: stmt.make_generic_copy(), a new statement of the same type and
\* agents with no evidence.
MakeGenericCopy(stmt) ==
    [hash |-> stmt.hash, evidence |-> <<>>, uuid |-> "fresh"]

\* Lines 432-433: the copy made for the evidence record ev.
\* (Mutant: the copy is given the statement's whole evidence list.)
CopyWithEvidence_all(stmt, ev) ==
    [MakeGenericCopy(stmt) EXCEPT !.evidence = stmt.evidence]

CopyWithEvidence(stmt, ev) ==
    [MakeGenericCopy(stmt) EXCEPT !.evidence = Append(@, ev)]

\* Lines 430-436: what the loop body yields for one statement.
\* (Mutant: the test is len(stmt.evidence) >= 1.)
ExpandOne_from_one(stmt) ==
    IF Len(stmt.evidence) >= 1
    THEN [i \in 1..Len(stmt.evidence) |-> CopyWithEvidence(stmt, stmt.evidence[i])]
    ELSE <<stmt>>

ExpandOne(stmt) ==
    IF Len(stmt.evidence) > 1
    THEN [i \in 1..Len(stmt.evidence) |-> CopyWithEvidence(stmt, stmt.evidence[i])]
    ELSE <<stmt>>

RECURSIVE Expanded(_)
\* _expanded(stmts), lines 427-436, read to its end.
Expanded(stmts) ==
    IF stmts = <<>>
    THEN <<>>
    ELSE ExpandOne(Head(stmts)) \o Expanded(Tail(stmts))

InitExpanded ==
    /\ xf \in {[NoXf EXCEPT !.pc = "call", !.fn = "_expanded", !.input = S] :
                 S \in SeqsUpTo(InputStmts, MaxStmts)}
    /\ pipe = NoPipe
    /\ jobs = NoJobs
    /\ InitStore
    /\ batch = NoBatch
    /\ NoCycle(NoVariables)

CallExpanded ==
    /\ xf.pc = "call"
    /\ xf.fn = "_expanded"
    /\ xf' = [xf EXCEPT !.pc = "returned", !.output = Expanded(xf.input)]
    /\ UNCHANGED <<db_info, raw_statements, last, batch, pipe, jobs>>
    /\ UNCHANGED <<pc, args, lambda_env, schemas, dump_file, readonly_db,
                   cycles, cyc>>

NextExpanded == CallExpanded

SpecExpanded == InitExpanded /\ [][NextExpanded]_vars

(***************************************************************************)
(* SpecExtract: extract_duplicates applied to a list of statements with    *)
(* one evidence record each, under either key function.  The function is   *)
(* imported (line 16) from indra_db.util, which is not among the sources    *)
(* at hand; it is taken from its contract.                                 *)
(***************************************************************************)

\* KeyFunc.mk_and_one_ev_src: content hash and source hash of the one
\* evidence record; KeyFunc.mk: the content hash alone.
KeyFuncs == {"mk_and_one_ev_src", "mk"}

KeyOf(key_func, stmt) ==
    IF key_func = "mk" THEN <<stmt.hash>> ELSE StmtKey(stmt)

\* The keys of a list of statements.
KeysOf(key_func, stmts) ==
    {KeyOf(key_func, stmts[i]) : i \in 1..Len(stmts)}

\* One statement of the single pass: kept when its key is new, put with the
\* duplicates when its key was seen.
\* (Mutant: the last statement seen for a key is the one kept.)
ExtractOne_last_wins(acc, stmt, key_func) ==
    IF KeyOf(key_func, stmt) \in KeysOf(key_func, acc.unique)
    THEN LET at == CHOOSE i \in 1..Len(acc.unique) :
                     KeyOf(key_func, acc.unique[i]) = KeyOf(key_func, stmt)
         IN  [unique |-> [acc.unique EXCEPT ![at] = stmt],
              duplicates |-> Append(acc.duplicates, acc.unique[at])]
    ELSE [acc EXCEPT !.unique = Append(@, stmt)]

ExtractOne(acc, stmt, key_func) ==
    IF KeyOf(key_func, stmt) \in KeysOf(key_func, acc.unique)
    THEN [acc EXCEPT !.duplicates = Append(@, stmt)]
    ELSE [acc EXCEPT !.unique = Append(@, stmt)]

RECURSIVE ExtractFrom(_, _, _)
ExtractFrom(acc, stmts, key_func) ==
    IF stmts = <<>>
    THEN acc
    ELSE ExtractFrom(ExtractOne(acc, Head(stmts), key_func), Tail(stmts), key_func)

\* extract_duplicates(stmts, key_func): (unique, duplicates).
ExtractDuplicates(stmts, key_func) ==
    ExtractFrom([unique |-> <<>>, duplicates |-> <<>>], stmts, key_func)

\* Statements with one evidence record, as _expanded leaves them: objects of
\* the adapter and fresh copies.
OneEvidenceStmts ==
    [hash : Hashes, evidence : {<<ev>> : ev \in EvidenceRecords},
     uuid : {"orig", "fresh"}]

InitExtract ==
    /\ xf \in {[NoXf EXCEPT !.pc = "call", !.fn = "extract_duplicates",
                              !.key_func = f, !.input = S] :
                 f \in KeyFuncs, S \in SeqsUpTo(OneEvidenceStmts, MaxStmts)}
    /\ pipe = NoPipe
    /\ jobs = NoJobs
    /\ InitStore
    /\ batch = NoBatch
    /\ NoCycle(NoVariables)

CallExtractDuplicates ==
    /\ xf.pc = "call"
    /\ xf.fn = "extract_duplicates"
    /\ LET r == ExtractDuplicates(xf.input, xf.key_func)
       IN  xf' = [xf EXCEPT !.pc = "returned", !.output = r.unique,
                            !.duplicates = r.duplicates]
    /\ UNCHANGED <<db_info, raw_statements, last, batch, pipe, jobs>>
    /\ UNCHANGED <<pc, args, lambda_env, schemas, dump_file, readonly_db,
                   cycles, cyc>>

NextExtract == CallExtractDuplicates

SpecExtract == InitExtract /\ [][NextExtract]_vars

(***************************************************************************)
(* SpecPipe: one call of a manager's _get_statements, from the statements  *)
(* of the source's processor to the list handed to upload, and the insert  *)
(* of that list.                                                           *)
(***************************************************************************)

\* What each manager's _get_statements does with the processor's statements:
\* whether it runs them through _expanded, whether it filters the expanded
\* statements with _can_include, whether it calls extract_duplicates.
Pipeline(short_name, expands, filters, dedups) ==
    [short_name |-> short_name, expands |-> expands, filters |-> filters,
     dedups |-> dedups]

PipeManagers ==
    {Pipeline("tas", TRUE, FALSE, TRUE),       \* lines 97-100
     Pipeline("signor", FALSE, FALSE, FALSE),  \* lines 108-111
     Pipeline("cbn", FALSE, FALSE, TRUE),      \* lines 142-162
     Pipeline("biogrid", TRUE, FALSE, FALSE),  \* lines 170-173
     Pipeline("pc", TRUE, TRUE, TRUE),         \* lines 207-210
     Pipeline("ctd", TRUE, FALSE, TRUE),       \* lines 228-233
     Pipeline("drugbank", TRUE, FALSE, TRUE),  \* lines 247-252
     Pipeline("vhn", TRUE, FALSE, FALSE),      \* lines 260-263
     Pipeline("pe", TRUE, FALSE, TRUE),        \* lines 285-290
     Pipeline("hprd", TRUE, FALSE, TRUE),      \* lines 333-338
     Pipeline("bel_lc", FALSE, FALSE, TRUE),   \* lines 349-357
     Pipeline("psp", FALSE, FALSE, TRUE),      \* lines 374-379
     Pipeline("rlimsp", TRUE, FALSE, TRUE),    \* lines 404-409
     Pipeline("trrust", TRUE, FALSE, TRUE),    \* lines 419-424
     Pipeline("dgi", TRUE, FALSE, TRUE),       \* lines 450-453
     Pipeline("crog", TRUE, FALSE, TRUE),      \* lines 467-470
     Pipeline("conib", TRUE, FALSE, TRUE)}     \* lines 500-503

PipelineOf(short_name) ==
    CHOOSE m \in PipeManagers : m.short_name = short_name

\* The statements a source's processor returns: each carries at least one
\* evidence record, and a processor may put several on one statement.
ProcessorStmts ==
    [hash : Hashes, evidence : {<<"e1">>, <<"e2">>, <<"e1", "e2">>},
     uuid : {"orig"}]

\* ev.annotations['source_sub_id'] of an evidence record, and the sub-sources
\* PathwayCommonsManager skips (line 180).
SourceSubId(ev) == IF ev = "e1" THEN "reactome" ELSE "psp"
Skips == {"psp", "hprd", "biogrid", "phosphosite", "phosphositeplus", "ctd",
          "drugbank"}

\* PathwayCommonsManager._can_include, lines 187-195, for a statement with
\* one evidence record.
CanInclude(stmt) == SourceSubId(stmt.evidence[1]) \notin Skips

\* The expanded statements a manager keeps.
Included(m, stmts) ==
    IF m.filters THEN SelectSeq(stmts, CanInclude) ELSE stmts

InitPipe ==
    /\ pipe \in {[NoPipe EXCEPT !.pc = "processed", !.manager = m.short_name,
                                !.raw = S, !.stmts = S] :
                   m \in PipeManagers, S \in SeqsUpTo(ProcessorStmts, MaxStmts)}
    /\ xf = NoXf
    /\ jobs = NoJobs
    /\ InitStore
    /\ batch = NoBatch
    /\ NoCycle(NoVariables)

PipeFrame ==
    /\ UNCHANGED <<db_info, last, batch, xf, jobs>>
    /\ UNCHANGED <<pc, args, lambda_env, schemas, dump_file, readonly_db,
                   cycles, cyc>>

\* [s for s in _expanded(stmts) (if self._can_include(s))]
PipeExpand ==
    /\ pipe.pc = "processed"
    /\ PipelineOf(pipe.manager).expands
    /\ pipe' = [pipe EXCEPT
                  !.pc = "expanded",
                  !.expanded_called = TRUE,
                  !.stmts = Included(PipelineOf(pipe.manager), Expanded(pipe.stmts))]
    /\ UNCHANGED raw_statements
    /\ PipeFrame

\* unique_stmts, _ = extract_duplicates(stmts, KeyFunc.mk_and_one_ev_src)
PipeExtractDuplicates ==
    /\ PipelineOf(pipe.manager).dedups
    /\ pipe.pc = IF PipelineOf(pipe.manager).expands THEN "expanded" ELSE "processed"
    /\ pipe' = [pipe EXCEPT
                  !.pc = "deduplicated",
                  !.dedup_called = TRUE,
                  !.dedup_input = pipe.stmts,
                  !.stmts = ExtractDuplicates(pipe.stmts, "mk_and_one_ev_src").unique]
    /\ UNCHANGED raw_statements
    /\ PipeFrame

\* return: the list _get_statements hands to upload (line 32).
PipeReturn ==
    /\ LET m == PipelineOf(pipe.manager)
       IN  pipe.pc = IF m.dedups THEN "deduplicated"
                     ELSE IF m.expands THEN "expanded"
                     ELSE "processed"
    /\ pipe' = [pipe EXCEPT !.pc = "returned", !.returned = pipe.stmts]
    /\ UNCHANGED raw_statements
    /\ PipeFrame

\* upload, line 35, into an empty table under the registration's id; the
\* statements are taken to pass the check of lines 33-34.
PipeInsert ==
    /\ pipe.pc = "returned"
    /\ pipe' = [pipe EXCEPT !.pc = "inserted"]
    /\ raw_statements' = InsertDbStmts(raw_statements, pipe.returned, 1)
    /\ PipeFrame

NextPipe == PipeExpand \/ PipeExtractDuplicates \/ PipeReturn \/ PipeInsert

SpecPipe == InitPipe /\ [][NextPipe]_vars

(***************************************************************************)
(* SpecJobs: two manager calls run by two processes against one store.     *)
(* Every access of a call to the store is a step of its own: the select of *)
(* _check_reference, its insert, the select_all of update, and the insert  *)
(* of the statements; the steps of the two calls interleave freely.        *)
(***************************************************************************)
JobIds == {1, 2}

\* What the adapter of a job returns.
JobResults ==
    {[raised |-> TRUE, stmts |-> <<>>]}
      \cup {[raised |-> FALSE, stmts |-> ss] :
              ss \in {<<>>, <<StmtA, StmtB>>} \cup {<<st>> : st \in AdapterStmts}}

\* A call that has not started.
NewJob(op, m, fetch) ==
    [op |-> op, m |-> m, fetch |-> fetch, pc |-> "check_reference",
     dbid |-> None, existing_keys |-> {}, result |-> "none"]

\* The store the two calls find: empty, or with both sources registered and a
\* statement persisted under each.
JobStores ==
    {[info |-> <<>>, rows |-> EmptyBag],
     [info |-> <<RegistrationOf(TasManager, 1), RegistrationOf(CBNManager, 2)>>,
      rows |-> RowsOf(<<StmtA>>, 1) (+) RowsOf(<<StmtA>>, 2)]}

InitJobs ==
    /\ \E store \in JobStores, op1, op2 \in {"upload", "update"}, m2 \in Managers,
          fetch1, fetch2 \in JobResults :
         /\ db_info = store.info
         /\ raw_statements = store.rows
         /\ jobs = [pc |-> "run", init_info |-> store.info,
                    init_rows |-> store.rows,
                    job |-> <<NewJob(op1, TasManager, fetch1),
                              NewJob(op2, m2, fetch2)>>,
                    overlapped |-> FALSE]
    /\ last = NoCall
    /\ batch = NoBatch
    /\ xf = NoXf
    /\ pipe = NoPipe
    /\ NoCycle(NoVariables)

JobsFrame ==
    /\ UNCHANGED <<last, batch, xf, pipe>>
    /\ UNCHANGED <<pc, args, lambda_env, schemas, dump_file, readonly_db,
                   cycles, cyc>>

\* The other call is between its first store access and its end.
OtherUnderWay(j) ==
    \E k \in JobIds \ {j} : jobs.job[k].pc \notin {"check_reference", "done"}

\* The call j after a step that leaves it as `job`.
JobStep(j, job) ==
    [jobs EXCEPT !.job[j] = job,
                 !.overlapped = jobs.overlapped \/ OtherUnderWay(j)]

\* Lines 56-62 and 66-69: the select of _check_reference and what follows it
\* when the row exists or may not be created.
JobCheckReference(j) ==
    LET job == jobs.job[j]
        can_create == job.op = "upload"
        dbinfo == SelectOne(db_info, job.m.short_name)
        ref == CheckReference(db_info, job.m, can_create)
    IN  /\ jobs.pc = "run"
        /\ job.pc = "check_reference"
        /\ IF dbinfo = None /\ can_create
           THEN /\ jobs' = JobStep(j, [job EXCEPT !.pc = "insert_reference"])
                /\ db_info' = db_info
           ELSE IF ~can_create /\ UpdateRefused(ref.dbid)
           THEN /\ jobs' = JobStep(j, [job EXCEPT !.pc = "done",
                                                  !.result = "NotRegistered"])
                /\ db_info' = db_info
           ELSE /\ jobs' = JobStep(j, [job EXCEPT
                                        !.pc = IF can_create THEN "insert"
                                               ELSE "select_all",
                                        !.dbid = ref.dbid])
                /\ db_info' = ref.info
        /\ UNCHANGED raw_statements
        /\ JobsFrame

\* Lines 63-65: dbid = db.insert(db.DBInfo, ...), the id being the next of
\* the table at the time of the insert.
JobInsertReference(j) ==
    LET job == jobs.job[j]
        dbid == Len(db_info) + 1
    IN  /\ jobs.pc = "run"
        /\ job.pc = "insert_reference"
        /\ db_info' = Append(db_info, RegistrationOf(job.m, dbid))
        /\ jobs' = JobStep(j, [job EXCEPT !.pc = "insert", !.dbid = dbid])
        /\ UNCHANGED raw_statements
        /\ JobsFrame

\* Lines 44-46: the keys update reads back.
JobSelectAll(j) ==
    LET job == jobs.job[j]
    IN  /\ jobs.pc = "run"
        /\ job.pc = "select_all"
        /\ jobs' = JobStep(j, [job EXCEPT
                                 !.pc = "insert",
                                 !.existing_keys =
                                   ExistingKeys(raw_statements, job.dbid)])
        /\ UNCHANGED <<db_info, raw_statements>>
        /\ JobsFrame

\* Lines 30-35 (upload) and 47-51 (update): _get_statements, which reads no
\* store, and the insert of the statements.
JobInsertStmts(j) ==
    LET job == jobs.job[j]
        stmts == IF job.op = "upload"
                 THEN UploadBatch(job.fetch.stmts)
                 ELSE FilterNew(job.fetch.stmts, job.existing_keys)
        result == IF job.op = "upload" /\ FirstInvalid(job.fetch.stmts) # 0
                  THEN "InvalidStatement" ELSE "ok"
    IN  /\ jobs.pc = "run"
        /\ job.pc = "insert"
        /\ IF job.fetch.raised
           THEN /\ jobs' = JobStep(j, [job EXCEPT !.pc = "done",
                                                  !.result = "FetchError"])
                /\ raw_statements' = raw_statements
           ELSE /\ jobs' = JobStep(j, [job EXCEPT !.pc = "done",
                                                  !.result = result])
                /\ raw_statements' =
                     IF job.op = "upload"
                     THEN InsertDbStmts(raw_statements, stmts, job.dbid)
                     ELSE UpdateInsert(raw_statements, stmts, job.dbid)
        /\ UNCHANGED db_info
        /\ JobsFrame

NextJobs ==
    \E j \in JobIds :
      \/ JobCheckReference(j)
      \/ JobInsertReference(j)
      \/ JobSelectAll(j)
      \/ JobInsertStmts(j)

SpecJobs == InitJobs /\ [][NextJobs]_vars

\* The call of a job made in one piece on the store (info, rows).
CallOf(job, info, rows) ==
    IF job.op = "upload"
    THEN UploadCall(info, rows, job.m, job.fetch)
    ELSE UpdateCall(info, rows, job.m, job.fetch)

\* The store after job a ran to its end and job b ran after it.
Serial(a, b) ==
    LET first == CallOf(jobs.job[a], jobs.init_info, jobs.init_rows)
    IN  CallOf(jobs.job[b], first.info, first.rows)

\* What a store holds for the source short_name: the metadata of its
\* registrations and the keys persisted under them, each with the number of
\* its rows.
RegistrationView(info, rows, short_name) ==
    LET ids == {info[i].id : i \in {k \in 1..Len(info) : info[k].db_name = short_name}}
    IN  [metadata |-> {<<info[i].source_api, info[i].db_full_name>> :
                         i \in {k \in 1..Len(info) : info[k].db_name = short_name}},
         persisted |-> {<<r.mk_hash, r.source_hash, rows[r]>> :
                          r \in {x \in BagToSet(rows) : x.db_info_id \in ids}}]

JobsDone == jobs.pc = "run" /\ \A j \in JobIds : jobs.job[j].pc = "done"

(***************************************************************************)
(* SpecRO: refresh cycles, one after the other.                            *)
(***************************************************************************)
InitRO ==
    /\ \E env \in InitialEnvs : NoCycle(env)
    /\ InitStore
    /\ batch = NoBatch
    /\ NoTransforms

NextRO ==
    \/ StartCycle
    \/ DropExisting
    \/ GenerateReadonly
    \/ DumpReadonly
    \/ EnterTransferEnv
    \/ LoadDumpRestore
    \/ LoadDumpReturn
    \/ LeaveTransferEnv

SpecRO == InitRO /\ [][NextRO]_vars

(***************************************************************************)
(*                              Properties                                 *)
(***************************************************************************)

\* The serving layer is redirected to the primary store.
Redirected == lambda_env = {<<"INDRAROOVERRIDE", PrincipalUrl>>}

\* C1 (SpecRO). When load_dump raised while the serving layer was redirected,
\* the cycle that ends in FAILED has put the serving layer's environment back
\* to the value it had before the cutover.
C1_RevertedAfterLoadFailure ==
    (CycleState = "FAILED" /\ cyc.load_raised) => lambda_env = cyc.env_before

\* C2 (SpecKB). An update that follows a completed update of the same manager,
\* with the adapter returning the same statements, persists nothing: the
\* RawStatements table is the same after it.
C2_UpdateIdempotent ==
    [][(/\ last.op = "update" /\ last.result = "ok"
        /\ last'.op = "update" /\ last'.kb = last.kb
        /\ last'.fetched /\ last'.result # "FetchError"
        /\ last'.stmts = last.stmts)
       => (last'.result = "ok" /\ raw_statements' = raw_statements)]_vars

C2_Witness ==
    /\ last.op = "update" /\ last.repeat /\ last.result = "ok"
    /\ Len(last.stmts) = MaxStmts
    /\ BagCardinality(raw_statements) >= 2

\* C3 (SpecKB). An upload whose adapter result holds a statement that
\* assert_valid_statement rejects ends with the validation error and persists
\* no statement of the batch, the valid ones before the invalid one included.
C3_InvalidUploadPersistsNothing ==
    [][(/\ last'.op = "upload" /\ last'.fetched
        /\ \E i \in 1..Len(last'.stmts) : ~last'.stmts[i].valid)
       => (last'.result = "InvalidStatement" /\ raw_statements' = raw_statements)]_vars

C3_Witness ==
    /\ last.op = "upload" /\ last.result = "InvalidStatement"
    /\ Len(last.stmts) >= 2
    /\ last.stmts[1].valid /\ ~last.stmts[2].valid

\* The rows persisted under dbid by an update that is handed stmts when the
\* table holds rows: one row for each statement whose key no row of dbid has.
C4_NewRows(rows, stmts, dbid) ==
    LET persisted == {<<r.mk_hash, r.source_hash>> :
                        r \in {x \in BagToSet(rows) : x.db_info_id = dbid}}
        news == SelectSeq(stmts, LAMBDA s : <<s.hash, s.evidence[1]>> \notin persisted)
    IN  RowsOf(news, dbid)

\* C4 (SpecKB). An update that completes leaves the table with exactly the
\* rows it had plus one row for each statement of the adapter's result whose
\* (content hash, source hash) key was not persisted under the registration
\* when the call was made.
C4_UpdatePersistsNewKeys ==
    [][(last'.op = "update" /\ last'.result = "ok")
       => /\ last'.dbid = SelectOne(db_info, last'.kb)
          /\ raw_statements'
               = raw_statements (+) C4_NewRows(raw_statements, last'.stmts, last'.dbid)]_vars

C4_Witness ==
    /\ last.op = "update" /\ last.result = "ok"
    /\ Len(last.stmts) = 2 /\ Len(last.inserted) = 1
    /\ StmtKey(last.stmts[1]) # StmtKey(last.stmts[2])
    /\ BagCardinality(raw_statements) = 2

\* C5 (SpecKB). No call of upload or update, completed or failed, removes or
\* replaces a persisted row: the table after a step holds every row it held
\* before, as many times.
C5_NeverDeletes == [][raw_statements \sqsubseteq raw_statements']_vars

C5_Witness ==
    /\ last.op = "upload" /\ last.result = "InvalidStatement"
    /\ last.dbid = 2
    /\ BagCardinality(raw_statements) = MaxRows
    /\ \E r \in BagToSet(raw_statements) : r.db_info_id = last.dbid

\* C6 (SpecKB). update for a knowledge base without registration ends with
\* the "not registered" error, does not call the adapter and leaves both
\* tables as they were.
C6_UpdateUnregistered ==
    [][(last'.op = "update" /\ SelectOne(db_info, last'.kb) = None)
       => /\ last'.result = "NotRegistered"
          /\ ~last'.fetched
          /\ db_info' = db_info
          /\ raw_statements' = raw_statements]_vars

C6_Witness ==
    /\ last.op = "update" /\ last.result = "NotRegistered"
    /\ db_info # <<>>
    /\ raw_statements # EmptyBag

\* C7 (SpecReg). _check_reference called again for the same short_name: with
\* the same source it returns the same identifier, leaves the DBInfo table as
\* it is and writes nothing; with another source it returns the same
\* identifier, adds no row, and the row of that short_name then stores the new
\* source, the other rows being untouched.
C7_CheckReferenceTwice ==
    [][(/\ last.op = "_check_reference" /\ last'.op = "_check_reference"
        /\ last'.kb = last.kb /\ last.dbid # None)
       => /\ last'.dbid = last.dbid
          /\ Len(db_info') = Len(db_info)
          /\ IF last'.source = last.source
             THEN db_info' = db_info /\ last'.write = "none"
             ELSE /\ last'.write = "commit"
                  /\ db_info' = [db_info EXCEPT ![last.dbid].source_api = last'.source]
                  /\ db_info'[last.dbid].source_api # db_info[last.dbid].source_api]_vars

C7_Witness ==
    /\ last.op = "_check_reference" /\ last.repeat
    /\ last.dbid # None /\ last.write = "none"
    /\ Len(db_info) = 2

\* C8 (SpecBatch). When the batch run has ended in mode upload or update,
\* every manager of the batch has been processed, whatever happened to the
\* job of another manager.
C8_EverySourceProcessed ==
    (batch.pc \in {"done", "crashed"})
       => Len(batch.attempted) = Len(BatchManagers)

\* C9 (SpecRO). A cycle in which generate_readonly or dump_readonly raised
\* has ended there: the Lambda function's environment was not written and is
\* what it was when the cycle began, load_dump was not called, and the final
\* drop of the readonly schema did not run (after a failed dump the schema is
\* still in the primary store).
C9_AbortBeforeCutover ==
    (cyc.failed_at \in {"generate_readonly", "dump_readonly"})
       => /\ CycleState = "FAILED"
          /\ cyc.env_calls = 0
          /\ lambda_env = cyc.env_before
          /\ ~cyc.load_called
          /\ ~cyc.final_drop
          /\ cyc.failed_at = "dump_readonly" => "readonly" \in schemas

C9_Witness ==
    /\ CycleState = "FAILED"
    /\ cyc.failed_at = "dump_readonly"
    /\ "readonly" \in schemas
    /\ ~Redirected

\* C10 (SpecRO). Whenever load_dump is in progress on the read-serving store
\* the Lambda function's environment is the redirect to the primary store.
C10_LoadOnlyWhileRedirected == CycleState = "LOADING" => Redirected

C10_Witness == CycleState = "LOADING" /\ readonly_db = "partial" /\ Redirected

\* C11 (SpecRO). The readonly schema leaves the primary store only by the
\* drop of line 72 or by the final drop, and the final drop runs only in the
\* step that completes the with statement after build, dump, cutover, load and
\* restore all completed; a step that ends the cycle in FAILED runs no final
\* drop and removes no schema.
C11_FinalDropOnlyOnSuccess ==
    [][/\ ("readonly" \in schemas /\ "readonly" \notin schemas')
           => (pc = "drop_existing" \/ (cyc'.final_drop /\ ~cyc.final_drop))
       /\ (cyc'.final_drop /\ ~cyc.final_drop)
           => /\ pc = "exit" /\ pc' = "idle"
              /\ cyc.failed_at = "none" /\ cyc'.failed_at = "none"
              /\ cyc.load_called /\ ~cyc.load_raised
              /\ readonly_db = "new"
              /\ dump_file # "none"
              /\ lambda_env' = NoVariables
       /\ (pc' = "failed")
           => /\ ~cyc'.final_drop
              /\ "readonly" \in schemas => "readonly" \in schemas']_vars

C11_Witness ==
    /\ CycleState = "FAILED"
    /\ cyc.failed_at = "exit"
    /\ readonly_db = "new"
    /\ "readonly" \in schemas
    /\ ~cyc.final_drop

\* The exceptions of the external operations of a cycle.
ExternalErrors == {"BuildError", "DumpError", "AttributeError", "LoadError"}

\* C12 (SpecRO). A cycle in which no external operation failed never enters
\* FAILED: a cycle that is in FAILED was ended by the exception of an external
\* operation.
C12_CleanCycleNeverFails ==
    (CycleState = "FAILED") => (cyc.error \in ExternalErrors \/ cyc.load_raised)

\* C16 (SpecBatch). A batch run whose mode is neither upload nor update calls
\* upload or update on no manager and leaves the store as it was, and its only
\* step ends the process with exit code 1.
C16_InvalidModeExits ==
    [][batch.mode \notin {"upload", "update"}
       => /\ batch'.pc = "exited"
          /\ batch'.exit_code = 1
          /\ batch'.attempted = <<>>
          /\ last' = NoCall
          /\ db_info' = db_info
          /\ raw_statements' = raw_statements]_vars

C16_Witness ==
    /\ batch.mode = "refresh"
    /\ batch.pc = "exited"
    /\ batch.exit_code = 1
    /\ db_info # <<>>

\* C19 (SpecKB). An upload that repeats the completed upload before it, with
\* the adapter returning the same statements, persists every fetched
\* statement again: the table grows by one row per fetched statement and then
\* holds every fetched key at least twice under the registration.
C19_UploadNotIdempotent ==
    [][(last'.op = "upload" /\ last'.repeat)
       => /\ last'.result = "ok"
          /\ last'.dbid = last.dbid
          /\ raw_statements' = raw_statements (+) RowsOf(last'.stmts, last'.dbid)
          /\ \A i \in 1..Len(last'.stmts) :
                LET row == [db_info_id |-> last'.dbid,
                            mk_hash |-> last'.stmts[i].hash,
                            source_hash |-> last'.stmts[i].evidence[1]]
                IN  /\ row \in BagToSet(raw_statements')
                    /\ raw_statements'[row] >= 2]_vars

C19_Witness ==
    /\ last.op = "upload"
    /\ last.repeat
    /\ last.stmts = <<StmtA>>
    /\ \E row \in BagToSet(raw_statements) :
         /\ row.db_info_id = last.dbid
         /\ raw_statements[row] = 2

RECURSIVE EvidenceCount(_)
\* The evidence records of a list of statements, counted.
EvidenceCount(stmts) ==
    IF stmts = <<>> THEN 0
    ELSE Len(Head(stmts).evidence) + EvidenceCount(Tail(stmts))

\* C13 as stated (SpecExpanded). The output of _expanded has the evidence
\* count of its input and every output statement has exactly one evidence
\* record.
C13_ExactlyOneEvidence ==
    (xf.fn = "_expanded" /\ xf.pc = "returned")
    => /\ EvidenceCount(xf.output) = EvidenceCount(xf.input)
       /\ \A j \in 1..Len(xf.output) : Len(xf.output[j].evidence) = 1

\* C13 amended (SpecExpanded). The output of _expanded has the evidence count
\* of its input, and every output statement has exactly one evidence record
\* unless it is an input statement with no evidence, emitted as it is.
C13_AtMostOneEvidence ==
    (xf.fn = "_expanded" /\ xf.pc = "returned")
    => /\ EvidenceCount(xf.output) = EvidenceCount(xf.input)
       /\ \A j \in 1..Len(xf.output) :
            \/ Len(xf.output[j].evidence) = 1
            \/ /\ xf.output[j].evidence = <<>>
               /\ \E i \in 1..Len(xf.input) : xf.input[i] = xf.output[j]

C13_Witness ==
    /\ xf.fn = "_expanded"
    /\ xf.pc = "returned"
    /\ \E i \in 1..Len(xf.input) : Len(xf.input[i].evidence) = 2
    /\ \E i \in 1..Len(xf.input) : Len(xf.input[i].evidence) = 0
    /\ Len(xf.output) = 3

\* The statements _expanded emits for one input statement.
Width(stmt) ==
    IF Len(stmt.evidence) > 1 THEN Len(stmt.evidence) ELSE 1

RECURSIVE EmittedBefore(_, _)
\* The statements emitted for the input statements before position i.
EmittedBefore(stmts, i) ==
    IF i = 1 THEN 0
    ELSE EmittedBefore(stmts, i - 1) + Width(stmts[i - 1])

\* C18 (SpecExpanded). For an input statement with k > 1 evidence records
\* _expanded emits k fresh copies of the same type and agents, the t-th with
\* the t-th evidence record alone; a statement with one or no evidence record
\* is emitted once, as it is; the output follows the order of the input.
C18_ExpandedShape ==
    (xf.fn = "_expanded" /\ xf.pc = "returned")
    => /\ Len(xf.output) = EmittedBefore(xf.input, Len(xf.input) + 1)
       /\ \A i \in 1..Len(xf.input) :
            LET stmt == xf.input[i]
                at == EmittedBefore(xf.input, i)
            IN  IF Len(stmt.evidence) > 1
                THEN \A t \in 1..Len(stmt.evidence) :
                       xf.output[at + t] =
                         [hash |-> stmt.hash, evidence |-> <<stmt.evidence[t]>>,
                          uuid |-> "fresh"]
                ELSE xf.output[at + 1] = stmt

C18_Witness ==
    /\ xf.fn = "_expanded"
    /\ xf.pc = "returned"
    /\ Len(xf.input) = 2
    /\ xf.input[1].evidence = <<"e2", "e1">>
    /\ Len(xf.input[2].evidence) = 1
    /\ Len(xf.output) = 3
    /\ xf.output[3] = xf.input[2]

\* The positions of a list that hold the statement s.
Occurrences(stmts, s) == {i \in 1..Len(stmts) : stmts[i] = s}

\* C14 (SpecExtract). extract_duplicates returns (unique, duplicates) with
\* len(unique) + len(duplicates) = len(S); the keys of unique are pairwise
\* distinct; unique holds, for every key of S, the first statement of S with
\* that key and nothing else; duplicates holds every statement of S whose key
\* occurs earlier in S, as often as it occurs so.
C14_ExtractDuplicates ==
    (xf.fn = "extract_duplicates" /\ xf.pc = "returned")
    => LET S == xf.input
           f == xf.key_func
           unique == xf.output
           duplicates == xf.duplicates
           IsFirst(i) == \A j \in 1..(i - 1) : KeyOf(f, S[j]) # KeyOf(f, S[i])
       IN  /\ Len(unique) + Len(duplicates) = Len(S)
           /\ \A a, b \in 1..Len(unique) :
                a # b => KeyOf(f, unique[a]) # KeyOf(f, unique[b])
           /\ \A i \in 1..Len(S) :
                IsFirst(i) => \E a \in 1..Len(unique) : unique[a] = S[i]
           /\ \A a \in 1..Len(unique) :
                \E i \in 1..Len(S) : IsFirst(i) /\ S[i] = unique[a]
           /\ \A i \in 1..Len(S) :
                ~IsFirst(i) =>
                  Cardinality(Occurrences(duplicates, S[i])) =
                    Cardinality({j \in Occurrences(S, S[i]) : ~IsFirst(j)})
           /\ \A d \in 1..Len(duplicates) :
                \E i \in 1..Len(S) : ~IsFirst(i) /\ S[i] = duplicates[d]

C14_Witness ==
    /\ xf.fn = "extract_duplicates"
    /\ xf.pc = "returned"
    /\ Len(xf.input) = 2
    /\ xf.input[1] # xf.input[2]
    /\ KeyOf(xf.key_func, xf.input[1]) = KeyOf(xf.key_func, xf.input[2])
    /\ xf.output = <<xf.input[1]>>
    /\ xf.duplicates = <<xf.input[2]>>

\* C15 (SpecPipe). For every manager, the list _get_statements hands to
\* upload has one evidence record per statement and no key twice, and the
\* upload persists exactly one row per key of the expanded (and, for Pathway
\* Commons, included) statements of the processor.
C15_HandedSingleAndUnique ==
    (pipe.pc = "inserted")
    => LET m == PipelineOf(pipe.manager)
           expanded == Included(m, Expanded(pipe.raw))
       IN  /\ \A i \in 1..Len(pipe.returned) : Len(pipe.returned[i].evidence) = 1
           /\ \A i, j \in 1..Len(pipe.returned) :
                i # j => StmtKey(pipe.returned[i]) # StmtKey(pipe.returned[j])
           /\ \A row \in BagToSet(raw_statements) : raw_statements[row] = 1
           /\ {<<row.mk_hash, row.source_hash>> : row \in BagToSet(raw_statements)}
                = KeysOf("mk_and_one_ev_src", expanded)

\* C17 (SpecPipe). In every manager, what is passed to extract_duplicates is
\* the output of _expanded, and every statement of it has exactly one
\* evidence record.
C17_ExtractAfterExpanded ==
    pipe.dedup_called
    => /\ pipe.dedup_input = Included(PipelineOf(pipe.manager), Expanded(pipe.raw))
       /\ \A i \in 1..Len(pipe.dedup_input) : Len(pipe.dedup_input[i].evidence) = 1

\* C20 (SpecJobs). When two calls for different registrations have run with
\* their store accesses interleaved, each registration's metadata and the
\* statements persisted under it are what they are after the two calls run
\* one after the other, in either order.
C20_DistinctJobsSerializable ==
    (JobsDone /\ jobs.job[1].m # jobs.job[2].m)
    => \A m \in Managers, order \in {<<1, 2>>, <<2, 1>>} :
         LET serial == Serial(order[1], order[2])
         IN  RegistrationView(db_info, raw_statements, m.short_name)
               = RegistrationView(serial.info, serial.rows, m.short_name)

C20_Witness ==
    /\ JobsDone
    /\ jobs.overlapped
    /\ jobs.job[1].m # jobs.job[2].m
    /\ jobs.job[1].op = "update" /\ jobs.job[2].op = "update"
    /\ jobs.job[1].fetch.stmts = <<StmtB>> /\ jobs.job[2].fetch.stmts = <<StmtB>>
    /\ \A m \in Managers :
         Cardinality(RegistrationView(db_info, raw_statements, m.short_name).persisted) = 2

\* Both calls are updates of the same registration that ran to their end.
TwoUpdatesOfOne ==
    /\ JobsDone
    /\ jobs.job[1].m = jobs.job[2].m
    /\ \A j \in JobIds : jobs.job[j].op = "update" /\ jobs.job[j].result = "ok"

\* C21 (SpecJobs). When two updates of the same registration have both read
\* the existing keys before either inserted, every key that both adapters
\* returned and that neither read is persisted at least twice under the
\* registration.
C21_DoubleInsert ==
    TwoUpdatesOfOne
    => \A a \in 1..Len(jobs.job[1].fetch.stmts),
          b \in 1..Len(jobs.job[2].fetch.stmts) :
         LET key == StmtKey(jobs.job[1].fetch.stmts[a])
             row == [db_info_id |-> jobs.job[1].dbid, mk_hash |-> key[1],
                     source_hash |-> key[2]]
         IN  (/\ key = StmtKey(jobs.job[2].fetch.stmts[b])
              /\ key \notin jobs.job[1].existing_keys
              /\ key \notin jobs.job[2].existing_keys)
             => /\ jobs.job[1].dbid = jobs.job[2].dbid
                /\ row \in BagToSet(raw_statements)
                /\ raw_statements[row] >= 2

\* The interleaving of the claim: a key absent from the store before the two
\* updates started is persisted twice under the registration.
C21_Witness ==
    /\ TwoUpdatesOfOne
    /\ jobs.overlapped
    /\ ExistingKeys(jobs.init_rows, jobs.job[1].dbid) = {StmtKey(StmtA)}
    /\ jobs.job[1].fetch.stmts = <<StmtB>>
    /\ jobs.job[2].fetch.stmts = <<StmtB>>
    /\ jobs.job[1].existing_keys = {StmtKey(StmtA)}
    /\ jobs.job[2].existing_keys = {StmtKey(StmtA)}
    /\ raw_statements[[db_info_id |-> jobs.job[1].dbid, mk_hash |-> StmtB.hash,
                       source_hash |-> StmtB.evidence[1]]] = 2

\* C22 (SpecKB). An upload that created the registration and then failed in
\* the fetch or in the validity check leaves the registration row persisted
\* and no statement under it; the update of that knowledge base that follows
\* is not refused and, when its adapter returns, persists every statement the
\* adapter returned.
C22_RegistrationBeforeFetch ==
    [][/\ FailedFirstUpload(last')
          => /\ SelectOne(db_info', last'.kb) # None
             /\ db_info'[SelectOne(db_info', last'.kb)].id = last'.dbid
             /\ ExistingKeys(raw_statements', last'.dbid) = {}
             /\ raw_statements' = raw_statements
       /\ last'.after_failed_upload
          => /\ last'.result # "NotRegistered"
             /\ last'.dbid = last.dbid
             /\ last'.result # "FetchError"
                => /\ last'.result = "ok"
                   /\ last'.inserted = last'.stmts
                   /\ raw_statements' =
                        raw_statements (+) RowsOf(last'.stmts, last'.dbid)]_vars

C22_Witness ==
    /\ last.op = "update"
    /\ last.after_failed_upload
    /\ last.result = "ok"
    /\ Len(last.stmts) = 2
    /\ raw_statements = RowsOf(last.stmts, last.dbid)

\* C23 (SpecSerial). With one upload followed by updates, one call at a
\* time, and adapter lists free of repeated keys, no key is ever persisted
\* more than once under the registration.
C23_SerialNoDuplicateKey ==
    \A row \in BagToSet(raw_statements) : raw_statements[row] = 1

C23_Witness ==
    /\ last.op = "update"
    /\ last.result = "ok"
    /\ Len(last.stmts) = 2
    /\ Len(last.inserted) = 1
    /\ BagCardinality(raw_statements) = MaxRows
    /\ \A row \in BagToSet(raw_statements) : row.db_info_id = last.dbid

====
